---- MODULE Spec2Model ----
(***************************************************************************)
(* Model of the Charge Amps external API client                           *)
(* (src/chargeamps/external.py) and of the command line driver            *)
(* (src/chargeamps/cli.py).                                                *)
(*                                                                         *)
(* A task is one coroutine of the embedding application that awaits       *)
(* domain calls on one shared ChargeAmpsExternalClient.  A step of the    *)
(* model is the code a coroutine runs between two suspension points of    *)
(* the event loop: the steps of different tasks interleave, the code      *)
(* inside a step does not.                                                 *)
(***************************************************************************)
EXTENDS Integers, Sequences, FiniteSets, TLC

\* ---------------------------------------------------------------- bounds
NumTasks == 2
MaxCalls == 3
MaxTime == 2

\* ------------------------------------------------------ program constants
NoToken == 0
InitExpire == 0
DefaultExp == 0

Tasks == 1..NumTasks

\* The value of a missing 'exp' claim in a login response.
NoExp == -1

\* The headers of a login request (the apiKey header only).
LoginHeaders == {"apiKey"}

\* What the server may answer to POST /api/v3/auth/login.
LoginResponses ==
    [kind : {"http_error", "bad_json", "no_token", "bad_token"}, exp : {NoExp}]
    \cup [kind : {"ok"}, exp : {NoExp} \cup (1..(MaxTime + 1))]

\* What the server may answer to a domain request.
DomainResponses == {"ok", "http_error", "bad_json"}

VARIABLES
    now,           \* time.time()
    token,         \* self._token (NoToken: None, else the id of a login response)
    token_expire,  \* self._token_expire
    headers,       \* self._headers['Authorization'] (NoToken: key absent)
    closed,        \* self._session.closed
    pc,            \* where each task is in its domain call
    call,          \* what each task's call has done so far (in part once over)
    exc,           \* the exception that ended each task's last call
    calls,         \* how many domain calls were started
    nTok,          \* how many login responses held a token
    tokExp,        \* the expiry the login response that held `token` stated
    shutdowns,     \* how often shutdown() was called: 0, 1, or 2 for more
    cli,           \* main_loop: its arguments, its place, how it ended
    session        \* get_chargingsessions: the session being patched

vars == <<now, token, token_expire, headers, closed, pc, call, exc, calls,
          nTok, tokExp, shutdowns, cli, session>>

\* The client, without the command line driver and the session patch.
clientVars == <<now, token, token_expire, headers, closed, pc, call, exc,
                calls, nTok, tokExp, shutdowns>>

cred == <<token, token_expire, headers>>

NoCall == [started |-> FALSE, logins |-> 0, domains |-> 0, auth |-> NoToken,
           tokAtSend |-> NoToken, expiredAtSend |-> FALSE,
           loginHdrs |-> {}, seen |-> "none", afterClose |-> FALSE,
           myTok |-> NoToken, raced |-> FALSE]

\* What is kept of a call once it is over: what it found and what it sent.
Over(c) == [NoCall EXCEPT !.started = TRUE, !.logins = c.logins,
                          !.domains = c.domains, !.seen = c.seen,
                          !.afterClose = c.afterClose]

\* The client as __init__ leaves it; the clock is past the epoch.
ClientInit ==
    /\ now = 1
    /\ token = NoToken
    /\ token_expire = InitExpire
    /\ headers = NoToken
    /\ closed = FALSE
    /\ pc = [t \in Tasks |-> "idle"]
    /\ call = [t \in Tasks |-> NoCall]
    /\ exc = [t \in Tasks |-> "none"]
    /\ calls = 0
    /\ nTok = 0
    /\ tokExp = InitExpire
    /\ shutdowns = 0

\* A refresh on every call, whatever the stored expiry.
NeedsLoginAlways(expire, clock) == TRUE

\* _ensure_token's test: the stored expiry is before the clock.
NeedsLogin(expire, clock) == expire < clock

\* token_payload.get('exp', 0)
DecodeExp(r) == IF r.exp = NoExp THEN DefaultExp ELSE r.exp

\* self._session.get/put(..., headers=self._headers) on an open session (a
\* closed ClientSession raises RuntimeError before anything is sent): the
\* request leaves with the headers as they are at this moment.
Dispatch(c, hdr, tok, expire) ==
    [c EXCEPT !.domains = @ + 1, !.auth = hdr, !.tokAtSend = tok,
              !.expiredAtSend = expire < now]

\* How the stored expiry stood to the clock when a call checked it.
Seen(expire, clock) ==
    IF expire < clock THEN "past" ELSE IF expire = clock THEN "now" ELSE "future"

InCall(t) == pc[t] \in {"login", "domain"}

\* A task awaits a domain operation (get_chargepoints, get_chargepoint_status,
\* get_chargingsessions, get_chargepoint_connector_settings through _get,
\* set_chargepoint_connector_settings through _put, which differ in the HTTP
\* verb only): _ensure_token runs and, with a credential that needs no
\* refresh, the request follows in the same step.
Request(t) ==
    /\ ~InCall(t)
    /\ calls' = calls + 1
    /\ LET c0 == [NoCall EXCEPT !.started = TRUE, !.afterClose = closed,
                                !.seen = Seen(token_expire, now)]
       IN IF NeedsLogin(token_expire, now)
          THEN IF closed
               THEN /\ pc' = [pc EXCEPT ![t] = "failed"]
                    /\ exc' = [exc EXCEPT ![t] = "RuntimeError"]
                    /\ call' = [call EXCEPT ![t] = Over(c0)]
               ELSE /\ pc' = [pc EXCEPT ![t] = "login"]
                    /\ exc' = [exc EXCEPT ![t] = "none"]
                    /\ call' = [u \in Tasks |->
                          IF u = t
                          THEN [c0 EXCEPT !.logins = 1, !.loginHdrs = LoginHeaders,
                                          !.raced = \E v \in Tasks \ {t} : pc[v] = "login"]
                          ELSE IF pc[u] = "login"
                               THEN [call[u] EXCEPT !.raced = TRUE]
                               ELSE call[u]]
          ELSE /\ pc' = [pc EXCEPT ![t] = IF closed THEN "failed" ELSE "domain"]
               /\ exc' = [exc EXCEPT ![t] = IF closed THEN "RuntimeError" ELSE "none"]
               /\ call' = [call EXCEPT ![t] =
                              IF closed THEN Over(c0)
                              ELSE Dispatch(c0, headers, token, token_expire)]
    /\ UNCHANGED <<now, token, token_expire, headers, closed, nTok, tokExp, shutdowns>>

\* The login response raises before anything is stored: a non-2xx status
\* (raise_for_status), a body that is no JSON, a JSON body without 'token'.
LoginError(t, r) ==
    /\ pc[t] = "login"
    /\ r.kind \in {"http_error", "bad_json", "no_token"}
    /\ pc' = [pc EXCEPT ![t] = "failed"]
    /\ exc' = [exc EXCEPT ![t] = CASE r.kind = "http_error" -> "ClientResponseError"
                                   [] r.kind = "bad_json" -> "ValueError"
                                   [] OTHER -> "KeyError"]
    /\ call' = [call EXCEPT ![t] = Over(@)]
    /\ UNCHANGED <<now, token, token_expire, headers, closed, calls,
                   nTok, tokExp, shutdowns, cli, session>>

\* The login response holds a token jwt.decode rejects: line 39 has stored
\* the token, lines 41 and 42 are never reached.
LoginUndecodable(t, r) ==
    /\ pc[t] = "login"
    /\ r.kind = "bad_token"
    /\ token' = nTok + 1
    /\ nTok' = nTok + 1
    /\ tokExp' = NoExp
    /\ pc' = [pc EXCEPT ![t] = "failed"]
    /\ exc' = [exc EXCEPT ![t] = "DecodeError"]
    /\ call' = [call EXCEPT ![t] = Over(@)]
    /\ UNCHANGED <<now, token_expire, headers, closed, calls, shutdowns, cli, session>>

\* A refresh that keeps a credential another call stored meanwhile.
StoredCredentialKeepsValid(tok, r) ==
    IF token # NoToken /\ token_expire >= now THEN cred
    ELSE <<tok, IF r.exp = NoExp THEN DefaultExp ELSE r.exp, tok>>

\* The credential after a decoded login response (lines 39 to 42).
StoredCredential(tok, r) == <<tok, DecodeExp(r), tok>>

\* The login response holds a token that decodes: the credential is stored
\* and the domain request follows in the same step.
LoginOk(t, r) ==
    /\ pc[t] = "login"
    /\ r.kind = "ok"
    /\ LET tok == nTok + 1
           new == StoredCredential(tok, r)
       IN /\ token' = new[1]
          /\ token_expire' = new[2]
          /\ headers' = new[3]
          /\ nTok' = tok
          /\ tokExp' = DecodeExp(r)
          /\ pc' = [pc EXCEPT ![t] = IF closed THEN "failed" ELSE "domain"]
          /\ exc' = [exc EXCEPT ![t] = IF closed THEN "RuntimeError" ELSE "none"]
          /\ call' = [call EXCEPT ![t] =
                         IF closed THEN Over(@)
                         ELSE Dispatch([@ EXCEPT !.myTok = tok],
                                       new[3], new[1], new[2])]
    /\ UNCHANGED <<now, closed, calls, shutdowns, cli, session>>

\* The domain response is 2xx and its body decodes.
DomainOk(t) ==
    /\ pc[t] = "domain"
    /\ pc' = [pc EXCEPT ![t] = "done"]
    /\ call' = [call EXCEPT ![t] = Over(@)]
    /\ UNCHANGED <<now, token, token_expire, headers, closed, exc,
                   calls, nTok, tokExp, shutdowns, cli, session>>

\* A failed domain request that also drops the stored credential.
DomainErrorInvalidates(t, k) ==
    /\ pc[t] = "domain"
    /\ k \in {"http_error", "bad_json"}
    /\ pc' = [pc EXCEPT ![t] = "failed"]
    /\ exc' = [exc EXCEPT ![t] = IF k = "http_error" THEN "ClientResponseError"
                                 ELSE "ValueError"]
    /\ token' = NoToken
    /\ token_expire' = InitExpire
    /\ call' = [call EXCEPT ![t] = Over(@)]
    /\ UNCHANGED <<now, headers, closed, calls, nTok, tokExp, shutdowns,
                   cli, session>>

\* The domain response is not 2xx (raise_for_status=True raises
\* ClientResponseError) or its body does not decode (ValueError).
DomainError(t, k) ==
    /\ pc[t] = "domain"
    /\ k \in {"http_error", "bad_json"}
    /\ pc' = [pc EXCEPT ![t] = "failed"]
    /\ exc' = [exc EXCEPT ![t] = IF k = "http_error" THEN "ClientResponseError"
                                 ELSE "ValueError"]
    /\ call' = [call EXCEPT ![t] = Over(@)]
    /\ UNCHANGED <<now, token, token_expire, headers, closed, calls,
                   nTok, tokExp, shutdowns, cli, session>>

\* A shutdown that leaves the session open.
shutdownLeavesOpen ==
    /\ shutdowns' = IF shutdowns = 0 THEN 1 ELSE 2
    /\ UNCHANGED <<now, token, token_expire, headers, closed, pc, call, exc,
                   calls, nTok, tokExp>>

\* await self._session.close()
shutdown ==
    /\ closed' = TRUE
    /\ shutdowns' = IF shutdowns = 0 THEN 1 ELSE 2
    /\ UNCHANGED <<now, token, token_expire, headers, pc, call, exc, calls,
                   nTok, tokExp>>

\* The wall clock advances.
Tick ==
    /\ now < MaxTime
    /\ now' = now + 1
    /\ UNCHANGED <<token, token_expire, headers, closed, pc, call, exc,
                   calls, nTok, tokExp, shutdowns, cli, session>>

\* ------------------------------------------------- the embedding application

\* A coroutine of the application awaits a domain operation.
Call(t) ==
    /\ calls < MaxCalls
    /\ Request(t)
    /\ UNCHANGED <<cli, session>>

\* The owner of the client awaits shutdown().
Close ==
    /\ shutdown
    /\ UNCHANGED <<cli, session>>

\* --------------------------------- get_chargingsessions: the timestamp patch

\* Characters are one-character strings; "U3" stands for a decimal digit
\* outside ASCII (ARABIC-INDIC DIGIT THREE), which \d matches in a str pattern.
AsciiDigits == {"0", "1", "2", "3", "4", "5", "6", "7", "8", "9"}
UnicodeDigits == AsciiDigits \cup {"U3"}

\* r'\d{4}-\d{2}-\d{2}T\d{2}:\d{2}:\d{2}.\d\d$', one entry per character:
\* "d" is \d, "any" is the unescaped dot, anything else is a literal.
Pattern == <<"d", "d", "d", "d", "-", "d", "d", "-", "d", "d", "T",
             "d", "d", ":", "d", "d", ":", "d", "d", "any", "d", "d">>

\* One pattern entry against one character.
MatchChar(p, c) ==
    CASE p = "d" -> c \in UnicodeDigits
      [] p = "any" -> c # "\n"
      [] OTHER -> c = p

\* re.match(Pattern, s): anchored at the start; $ matches at the end of the
\* string and just before a newline that ends it.
ReMatch(s) ==
    /\ \/ Len(s) = Len(Pattern)
       \/ Len(s) = Len(Pattern) + 1 /\ s[Len(s)] = "\n"
    /\ \A i \in 1..Len(Pattern) : MatchChar(Pattern[i], s[i])

\* The loop body of get_chargingsessions for one key (lines 82 and 83).
PatchValue(s) == IF ReMatch(s) THEN Append(s, "0") ELSE s

Keys == <<"startTime", "endTime">>

\* The session get_chargingsessions is not working on.
NoSession == [startTime |-> <<>>, endTime |-> <<>>, key |-> Len(Keys) + 1,
              orig |-> <<>>]

\* YYYY-MM-DDTHH:MM:SS, well formed and with a letter for the first digit.
Stems == { <<"2", "0", "2", "3", "-", "0", "5", "-", "0", "1", "T",
             "1", "0", ":", "0", "0", ":", "0", "0">>,
           <<"X", "0", "2", "3", "-", "0", "5", "-", "0", "1", "T",
             "1", "0", ":", "0", "0", ":", "0", "0">> }

MaxFraction == 3
Separators == {".", ":", "\n"}
FractionChars == {"1", "U3", "X", "\n"}

RECURSIVE Strings(_, _)
\* The strings over alphabet of length at most n.
Strings(alphabet, n) ==
    IF n = 0 THEN {<<>>}
    ELSE LET shorter == Strings(alphabet, n - 1)
         IN shorter \cup { Append(s, c) : s \in shorter, c \in alphabet }

\* The timestamps the server may send: a stem, a separator, a fraction.
Timestamps ==
    { stem \o <<sep>> \o frac : stem \in Stems, sep \in Separators,
                                frac \in Strings(FractionChars, MaxFraction) }

\* The end times tried with every start time.
EndTimes == { s \in Timestamps : s[1] = "2" /\ s[20] \in {".", ":"}
                                 /\ Len(s) \in {22, 23} /\ s[21] = "1" }

\* for key in ['startTime', 'endTime']: one turn of the loop.
PatchKey ==
    /\ session.key <= Len(Keys)
    /\ LET k == Keys[session.key]
       IN session' = [session EXCEPT ![k] = PatchValue(@),
                                     !.key = @ + 1,
                                     !.orig = Append(@, session[k])]
    /\ UNCHANGED <<clientVars, cli>>

\* ------------------------------------------------------ cli.py: main_loop

\* The coroutine main_loop awaits the client on.
CliTask == 1

\* The most elements a decoded list (charge points, connector statuses) has.
MaxItems == 2

Commands == {"chargepoints", "status", "sessions", "get", "set"}

\* main_loop before it is started, and in any run without it.
CliOff == [pc |-> "off", command |-> "none", debug |-> FALSE,
           charge_point_id |-> FALSE, connector_id |-> FALSE,
           todo |-> <<>>, exit |-> "none"]

\* The steps of a command, each one awaited client call: "id" and "list" are
\* get_chargepoints, "status" and "connectors" get_chargepoint_status,
\* "sessions" get_chargingsessions, "settings"
\* get_chargepoint_connector_settings, "set" set_chargepoint_connector_settings.
\* get_chargepoint_id: with --chargepoint no call is made.
IdSteps(args) == IF args.charge_point_id THEN <<>> ELSE <<"id">>

\* The calls args.func makes, in order (the command_* functions); the
\* settings calls of "get" without --connector are added once the status
\* response tells the connectors.
CommandSteps(args) ==
    CASE args.command = "chargepoints" -> <<"list">>
      [] args.command = "status" -> IdSteps(args) \o <<"status">>
      [] args.command = "sessions" -> IdSteps(args) \o <<"sessions">>
      [] args.command = "get" ->
            IdSteps(args) \o (IF args.connector_id THEN <<"settings">>
                              ELSE <<"connectors">>)
      [] OTHER -> IdSteps(args) \o <<"settings", "set">>

\* The try statement of main_loop and what follows it (lines 157 to 168):
\* whether client.shutdown() is awaited, and how main_loop ends, when the
\* command ends with exception e ("none": it returned).
Handler(e, debug) ==
    CASE e \in {"none", "ClientResponseError"} ->
            [shutdown |-> TRUE, exit |-> "return"]
      [] e = "ValueError" /\ ~debug -> [shutdown |-> TRUE, exit |-> "sys.exit"]
      [] OTHER -> [shutdown |-> FALSE, exit |-> "raise"]

\* main_loop leaves the try statement with exception e.
CliEnd(e) ==
    LET h == Handler(e, cli.debug)
    IN /\ cli' = [cli EXCEPT !.pc = "exit", !.exit = h.exit]
       /\ IF h.shutdown THEN shutdown
          ELSE UNCHANGED <<now, token, token_expire, headers, closed, pc, call,
                           exc, calls, nTok, tokExp, shutdowns>>
       /\ UNCHANGED session

\* The command awaits its next client call.
CliAwait ==
    /\ cli.pc = "run"
    /\ cli.todo # <<>>
    /\ Request(CliTask)
    /\ cli' = [cli EXCEPT !.pc = "await"]
    /\ UNCHANGED session

\* The awaited call returned a list of n elements (one object for the calls
\* that return one): the command goes on, or raises IndexError on
\* chargepoints[0] of an empty list.
CliResume(n) ==
    /\ cli.pc = "await"
    /\ pc[CliTask] = "done"
    /\ LET step == Head(cli.todo)
       IN IF step = "id" /\ n = 0
          THEN CliEnd("IndexError")
          ELSE /\ cli' = [cli EXCEPT !.pc = "run", !.todo =
                            Tail(@) \o (IF step = "connectors"
                                        THEN [i \in 1..n |-> "settings"]
                                        ELSE <<>>)]
               /\ UNCHANGED <<clientVars, session>>

\* The awaited call raised: the exception reaches the try statement.
CliRaise ==
    /\ cli.pc = "await"
    /\ pc[CliTask] = "failed"
    /\ CliEnd(exc[CliTask])

\* The command made all its calls and returned.
CliReturn ==
    /\ cli.pc = "run"
    /\ cli.todo = <<>>
    /\ CliEnd("none")

\* --------------------------------------------------------- specifications

Init ==
    /\ ClientInit
    /\ cli = CliOff
    /\ session = NoSession

Next ==
    \/ \E t \in Tasks : Call(t)
    \/ \E t \in Tasks, r \in LoginResponses : LoginError(t, r)
    \/ \E t \in Tasks, r \in LoginResponses : LoginUndecodable(t, r)
    \/ \E t \in Tasks, r \in LoginResponses : LoginOk(t, r)
    \/ \E t \in Tasks : DomainOk(t)
    \/ \E t \in Tasks, k \in DomainResponses : DomainError(t, k)
    \/ Close
    \/ Tick

\* Coroutines of an application sharing one client.
Spec == Init /\ [][Next]_vars

\* main_loop after parse_args and the construction of the client: --connector
\* is required by "set".
InitCli ==
    /\ ClientInit
    /\ session = NoSession
    /\ \E c \in Commands, d \in BOOLEAN, cp \in BOOLEAN, conn \in BOOLEAN :
          /\ c = "set" => conn
          /\ LET args == [CliOff EXCEPT !.pc = "run", !.command = c, !.debug = d,
                                        !.charge_point_id = cp,
                                        !.connector_id = conn]
             IN cli = [args EXCEPT !.todo = CommandSteps(args)]

NextCli ==
    \/ CliAwait
    \/ \E n \in 0..MaxItems : CliResume(n)
    \/ CliRaise
    \/ CliReturn
    \/ \E r \in LoginResponses : LoginError(CliTask, r)
    \/ \E r \in LoginResponses : LoginUndecodable(CliTask, r)
    \/ \E r \in LoginResponses : LoginOk(CliTask, r)
    \/ DomainOk(CliTask)
    \/ \E k \in DomainResponses : DomainError(CliTask, k)
    \/ Tick

\* The command line tool: one coroutine, its own client.
SpecCli == InitCli /\ [][NextCli]_vars

\* get_chargingsessions patching the timestamps of one session.
InitTs ==
    /\ ClientInit
    /\ cli = CliOff
    /\ session \in [startTime : Timestamps, endTime : EndTimes, key : {1},
                    orig : {<<>>}]

NextTs == PatchKey

SpecTs == InitTs /\ [][NextTs]_vars

\* ------------------------------------------------------------- properties

\* C1: whenever a bearer-authenticated domain request is dispatched, the
\* stored expiry is not earlier than the clock at that moment, whatever
\* expiry the login returned and however the clock moved since the check.
C1_NoDispatchWithExpiredCredential ==
    \A t \in Tasks : pc[t] = "domain" => ~call[t].expiredAtSend

\* C2: a call that finds the stored expiry strictly after the clock sends no
\* login request and leaves token, expiry and Authorization header as they
\* are; so no login is sent while the stored expiry stays in the future.
C2_ValidCredentialIsReused ==
    [][(calls' = calls + 1 /\ token_expire > now)
          => /\ cred' = cred
             /\ \A t \in Tasks : pc'[t] = "login" => pc[t] = "login"]_vars

\* C2's case: a call found the expiry in the future and sent its domain
\* request without a login.
C2_Witness ==
    \E t \in Tasks : /\ call[t].seen = "future"
                     /\ call[t].logins = 0
                     /\ call[t].domains = 1

\* C3: a call that finds the stored expiry at or before the clock (the
\* never-set expiry 0 and expiry = clock included) sends exactly one login
\* request, and the credential it stores is the token and expiry of that
\* login's response.
C3_DueCredentialLogsInOnce ==
    \A t \in Tasks :
        (call[t].seen \in {"past", "now"} /\ ~call[t].afterClose)
           => /\ call[t].logins = 1
              /\ (call[t].myTok # NoToken /\ nTok = call[t].myTok)
                    => cred = <<call[t].myTok, tokExp, call[t].myTok>>

C5_LastLoginWins ==
    /\ \A t \in Tasks :
          /\ (InCall(t) /\ call[t].seen = "past") => call[t].logins = 1
          /\ call[t].myTok # NoToken
                => (pc[t] = "domain" /\ call[t].domains = 1)
          /\ (call[t].myTok # NoToken /\ call[t].myTok = nTok)
                => cred = <<call[t].myTok, tokExp, call[t].myTok>>
    /\ (nTok > 0 /\ tokExp # NoExp) => cred = <<nTok, tokExp, nTok>>

\* C5's case: two calls found the credential expired, their logins were in
\* flight together, both were answered and both domain requests are out; the
\* credential is that of the second answer.
C5_Witness ==
    \E t1, t2 \in Tasks :
        /\ t1 # t2
        /\ call[t1].raced /\ call[t2].raced
        /\ call[t1].seen = "past" /\ call[t2].seen = "past"
        /\ pc[t1] = "domain" /\ pc[t2] = "domain"
        /\ call[t1].myTok = 1 /\ call[t2].myTok = 2
        /\ token = 2 /\ headers = 2 /\ token_expire = tokExp

\* C6: token, expiry and Authorization header always come from one login
\* response, or are all still as __init__ set them.
C6_CredentialIsWhole ==
    \/ token = NoToken /\ token_expire = InitExpire /\ headers = NoToken
    \/ token # NoToken /\ headers = token /\ token_expire = tokExp

\* C7: once shutdown() was called the session is closed, however often it
\* is called again, and a call started after it has failed at once, without
\* a login or a domain request, whether the credential was valid or not.
C7_ClosedClientFailsAtOnce ==
    /\ shutdowns > 0 => closed
    /\ \A t \in Tasks :
          call[t].afterClose
             => /\ pc[t] = "failed"
                /\ exc[t] = "RuntimeError"
                /\ call[t].logins = 0
                /\ call[t].domains = 0

\* C7's case: shutdown() was called more than once, and calls were started
\* after it with a credential that needs no refresh and with an expired one.
C7_Witness ==
    /\ shutdowns >= 2
    /\ token # NoToken
    /\ \E t1, t2 \in Tasks :
          /\ call[t1].afterClose /\ call[t1].seen \in {"now", "future"}
          /\ call[t2].afterClose /\ call[t2].seen = "past"

\* C8: a domain operation that succeeds has sent one domain request, after
\* at most one login, carrying Authorization: Bearer <token> for the token
\* stored when it was dispatched; its login carried the apiKey header only.
C8_OneRequestWithStoredToken ==
    [][\A t \in Tasks :
          (pc[t] = "domain" /\ pc'[t] = "done")
             => /\ call[t].domains = 1
                /\ call[t].logins <= 1
                /\ call[t].loginHdrs \subseteq {"apiKey"}
                /\ call[t].auth # NoToken
                /\ call[t].auth = call[t].tokAtSend]_vars

\* YYYY-MM-DDTHH:MM:SS.dd: a literal '.', two digits, nothing after.
ExactShape(s) ==
    /\ Len(s) = Len(Pattern)
    /\ \A i \in 1..Len(Pattern) :
          CASE Pattern[i] = "d" -> s[i] \in AsciiDigits
            [] Pattern[i] = "any" -> s[i] = "."
            [] OTHER -> s[i] = Pattern[i]

\* C9: a startTime or endTime gets a trailing '0' if and only if it has the
\* exact shape YYYY-MM-DDTHH:MM:SS.dd; any other value is left as it is.
C9_PatchOnlyExactShape ==
    \A i \in 1..Len(session.orig) :
        session[Keys[i]] = IF ExactShape(session.orig[i])
                           THEN Append(session.orig[i], "0")
                           ELSE session.orig[i]

\* C10: when main_loop has ended, by whatever path, client.shutdown() was
\* called exactly once.
C10_ShutdownOnEveryExit ==
    cli.pc = "exit" => shutdowns = 1

====
